---- MODULE Spec2Model ----
(***************************************************************************)
(* State-transition model of the to-do list component src/src/App.jsx.     *)
(*                                                                         *)
(* A JavaScript string is modelled as a sequence of chunks: the chunk " "  *)
(* is one whitespace character, every other chunk is a word without        *)
(* whitespace that is not the concatenation of other words.  'Work' is     *)
(* <<"Work">>, ' work ' is <<" ", "work", " ">>, '' is <<>>.  Two strings  *)
(* are equal (===) exactly when their sequences are equal.                 *)
(*                                                                         *)
(* Every action is one event handler of the rendered controls.  React      *)
(* flushes the state updates of a discrete event before the next event is  *)
(* dispatched, so a handler reads the state left by the previous handler   *)
(* and all its setX calls are computed from that one snapshot.             *)
(***************************************************************************)
EXTENDS Integers, Sequences, FiniteSets, TLC

VARIABLES todos, input, categories, selectedCategory, filterCategory,
          newCategory, editingCategory, editCategoryValue, now, steps, last,
          removed

vars == <<todos, input, categories, selectedCategory, filterCategory,
          newCategory, editingCategory, editCategoryValue, now, steps, last,
          removed>>

\* ---------------------------------------------------------------- bounds
MaxTodos == 2
MaxCats == 4
MaxTime == 2
MaxSteps == 6

\* ---------------------------------------------------------------- strings
WS == " "
Empty == <<>>
Uncategorized == <<"Uncategorized">>
All == <<"all">>

\* editingCategory is null or a category: null is None, a category c is Some(c)
None == <<>>
Some(c) == <<c>>

\* String.prototype.trim: drop leading and trailing whitespace
RECURSIVE trimStart(_)
trimStart(s) == IF s # <<>> /\ Head(s) = WS THEN trimStart(Tail(s)) ELSE s

RECURSIVE trimEnd(_)
trimEnd(s) ==
  IF s # <<>> /\ s[Len(s)] = WS THEN trimEnd(SubSeq(s, 1, Len(s) - 1)) ELSE s

trim(s) == trimEnd(trimStart(s))

\* truthiness of a string: '' is falsy, every other string is truthy
Truthy(s) == s # Empty

\* Array.prototype.includes
includes(arr, x) == \E i \in 1..Len(arr) : arr[i] = x

\* Array.prototype.filter is SelectSeq; Array.prototype.map is the function
\* constructor [i \in 1..Len(arr) |-> ...] over the same indices

Range(arr) == {arr[i] : i \in 1..Len(arr)}

\* the strings the user types into the three text fields
TodoTexts == {<<WS>>, <<WS, "milk">>}
CategoryTexts == {<<WS>>, <<WS, "work", WS>>, Uncategorized, All}

\* ---------------------------------------------------------------- state
InitialCategories == <<<<"Personal">>, <<"Work">>, <<"Shopping">>>>

Snapshot ==
  [todos |-> todos, input |-> input, categories |-> categories,
   selectedCategory |-> selectedCategory, filterCategory |-> filterCategory,
   newCategory |-> newCategory, editingCategory |-> editingCategory,
   editCategoryValue |-> editCategoryValue]

Init ==
  /\ todos = <<>>
  /\ input = Empty
  /\ categories = InitialCategories
  /\ selectedCategory = Empty
  /\ filterCategory = All
  /\ newCategory = Empty
  /\ editingCategory = None
  /\ editCategoryValue = Empty
  /\ now = 1
  /\ steps = 0
  /\ last = [op |-> "init", arg |-> Empty, pre |-> Snapshot]
  /\ removed = {}

\* ---------------------------------------------------------------- derived view
\* mutant: "all" is not treated as a sentinel
filteredTodos_NoSentinel ==
  SelectSeq(todos, LAMBDA todo : todo.category = filterCategory)

filteredTodos ==
  IF filterCategory = All THEN todos
  ELSE SelectSeq(todos, LAMBDA todo : todo.category = filterCategory)

\* String.prototype.localeCompare: the collation weight of a chunk (blank
\* first, then alphabetical, lower case before upper case), and the
\* comparison of two strings chunk by chunk
Weight(chunk) ==
  CASE chunk = WS -> 0
    [] chunk = "all" -> 1
    [] chunk = "milk" -> 2
    [] chunk = "Personal" -> 3
    [] chunk = "Shopping" -> 4
    [] chunk = "Uncategorized" -> 5
    [] chunk = "work" -> 6
    [] chunk = "Work" -> 7

RECURSIVE localeCompare(_, _)
localeCompare(a, b) ==
  IF a = <<>> /\ b = <<>> THEN 0
  ELSE IF a = <<>> THEN -1
  ELSE IF b = <<>> THEN 1
  ELSE IF Weight(Head(a)) < Weight(Head(b)) THEN -1
  ELSE IF Weight(Head(a)) > Weight(Head(b)) THEN 1
  ELSE localeCompare(Tail(a), Tail(b))

\* mutant: an element is put in front of the elements it compares equal to
InsertSorted_BeforeEqual(sorted, todo) ==
  LET k == Cardinality({i \in 1..Len(sorted) :
                          localeCompare(sorted[i].category, todo.category) < 0})
  IN SubSeq(sorted, 1, k) \o <<todo>> \o SubSeq(sorted, k + 1, Len(sorted))

\* Array.prototype.sort is stable: an element goes behind every element that
\* does not compare greater than it
InsertSorted(sorted, todo) ==
  LET k == Cardinality({i \in 1..Len(sorted) :
                          localeCompare(sorted[i].category, todo.category) <= 0})
  IN SubSeq(sorted, 1, k) \o <<todo>> \o SubSeq(sorted, k + 1, Len(sorted))

RECURSIVE SortByCategory(_)
SortByCategory(arr) ==
  IF arr = <<>> THEN <<>>
  ELSE InsertSorted(SortByCategory(SubSeq(arr, 1, Len(arr) - 1)), arr[Len(arr)])

sortedTodos == SortByCategory(filteredTodos)

\* ---------------------------------------------------------------- handlers
\* one handled event: which handler ran, with which argument, and the state
\* of the render whose closure it read.  A run handles at most MaxSteps
\* events and clock ticks.  removed collects the ids of the todos that
\* deleteTodo has taken out of the collection.
Handled(op, arg) ==
  /\ steps < MaxSteps
  /\ steps' = steps + 1
  /\ last' = [op |-> op, arg |-> arg, pre |-> Snapshot]
  /\ removed' = IF op = "deleteTodo"
                  THEN removed \cup {todos[i].id : i \in {j \in 1..Len(todos) :
                                                            todos[j].id = arg}}
                  ELSE removed

\* the clock read by Date.now() advances by a millisecond; events that are
\* handled without a Tick between them read the same millisecond
Tick ==
  /\ now < MaxTime
  /\ now' = now + 1
  /\ steps < MaxSteps
  /\ steps' = steps + 1
  /\ UNCHANGED <<todos, input, categories, selectedCategory, filterCategory,
                 newCategory, editingCategory, editCategoryValue, last, removed>>

\* onChange of the three text fields
setInput(s) ==
  /\ input' = s
  /\ Handled("setInput", s)
  /\ UNCHANGED <<todos, categories, selectedCategory, filterCategory,
                 newCategory, editingCategory, editCategoryValue, now>>

setNewCategory(s) ==
  /\ newCategory' = s
  /\ Handled("setNewCategory", s)
  /\ UNCHANGED <<todos, input, categories, selectedCategory, filterCategory,
                 editingCategory, editCategoryValue, now>>

setEditCategoryValue(s) ==
  /\ editCategoryValue' = s
  /\ Handled("setEditCategoryValue", s)
  /\ UNCHANGED <<todos, input, categories, selectedCategory, filterCategory,
                 newCategory, editingCategory, now>>

\* onChange of the two selects
setSelectedCategory(v) ==
  /\ selectedCategory' = v
  /\ Handled("setSelectedCategory", v)
  /\ UNCHANGED <<todos, input, categories, filterCategory, newCategory,
                 editingCategory, editCategoryValue, now>>

\* mutant: a value that is not the value of an option is ignored
setFilterCategory_Validated(v) ==
  /\ filterCategory' = IF v \in {All, Uncategorized} \cup Range(categories)
                         THEN v ELSE filterCategory
  /\ Handled("setFilterCategory", v)
  /\ UNCHANGED <<todos, input, categories, selectedCategory, newCategory,
                 editingCategory, editCategoryValue, now>>

setFilterCategory(v) ==
  /\ filterCategory' = v
  /\ Handled("setFilterCategory", v)
  /\ UNCHANGED <<todos, input, categories, selectedCategory, newCategory,
                 editingCategory, editCategoryValue, now>>

\* mutant: the stored text is the trimmed text
NewTodo_Trimmed(id, text, sel) ==
  [id |-> id, text |-> trim(text), completed |-> FALSE,
   category |-> IF Truthy(sel) THEN sel ELSE Uncategorized]

NewTodo(id, text, sel) ==
  [id |-> id, text |-> text, completed |-> FALSE,
   category |-> IF Truthy(sel) THEN sel ELSE Uncategorized]

\* mutant: the presence check does not trim
AcceptsTodo_NoTrim(text) == Truthy(text)

AcceptsTodo(text) == Truthy(trim(text))

\* mutant: the new todo is put in front
AppendTodo_Prepend(ts, todo) == <<todo>> \o ts

\* [...todos, todo]
AppendTodo(ts, todo) == Append(ts, todo)

\* mutant: the handler reads the todos of the render before the last event
addTodo_Stale ==
  /\ AcceptsTodo(input) => Len(todos) < MaxTodos
  /\ IF AcceptsTodo(input)
       THEN /\ todos' = AppendTodo(last.pre.todos, NewTodo(now, input, selectedCategory))
            /\ input' = Empty
       ELSE UNCHANGED <<todos, input>>
  /\ Handled("addTodo", input)
  /\ UNCHANGED <<categories, selectedCategory, filterCategory, newCategory,
                 editingCategory, editCategoryValue, now>>

addTodo ==
  /\ AcceptsTodo(input) => Len(todos) < MaxTodos
  /\ IF AcceptsTodo(input)
       THEN /\ todos' = AppendTodo(todos, NewTodo(now, input, selectedCategory))
            /\ input' = Empty
       ELSE UNCHANGED <<todos, input>>
  /\ Handled("addTodo", input)
  /\ UNCHANGED <<categories, selectedCategory, filterCategory, newCategory,
                 editingCategory, editCategoryValue, now>>

\* mutant: the condition on the id is missing
ToggleTodos_All(ts, id) ==
  [i \in 1..Len(ts) |-> [ts[i] EXCEPT !.completed = ~ts[i].completed]]

\* mutant: the flag is set instead of flipped
ToggleTodos_SetDone(ts, id) ==
  [i \in 1..Len(ts) |-> IF ts[i].id = id
                          THEN [ts[i] EXCEPT !.completed = TRUE]
                          ELSE ts[i]]

ToggleTodos(ts, id) ==
  [i \in 1..Len(ts) |-> IF ts[i].id = id
                          THEN [ts[i] EXCEPT !.completed = ~ts[i].completed]
                          ELSE ts[i]]

toggleTodo(id) ==
  /\ todos' = ToggleTodos(todos, id)
  /\ Handled("toggleTodo", id)
  /\ UNCHANGED <<input, categories, selectedCategory, filterCategory,
                 newCategory, editingCategory, editCategoryValue, now>>

\* mutant: the filter condition is inverted
RemoveTodo_Inverted(ts, id) == SelectSeq(ts, LAMBDA todo : todo.id = id)

RemoveTodo(ts, id) == SelectSeq(ts, LAMBDA todo : todo.id # id)

deleteTodo(id) ==
  /\ todos' = RemoveTodo(todos, id)
  /\ Handled("deleteTodo", id)
  /\ UNCHANGED <<input, categories, selectedCategory, filterCategory,
                 newCategory, editingCategory, editCategoryValue, now>>

\* mutant: no duplicate check
AcceptsCategory_NoDupCheck(cats, name) == Truthy(trim(name))

\* mutant: the duplicate check looks for the untrimmed name
AcceptsCategory_Untrimmed(cats, name) == Truthy(trim(name)) /\ ~includes(cats, name)

\* mutant: the reserved name is refused
AcceptsCategory_Reserved(cats, name) ==
  Truthy(trim(name)) /\ ~includes(cats, trim(name)) /\ trim(name) # Uncategorized

AcceptsCategory(cats, name) == Truthy(trim(name)) /\ ~includes(cats, trim(name))

\* mutant: the name is stored as entered
AppendCategory_Untrimmed(cats, name) == Append(cats, name)

\* mutant: the new category is put in front
AppendCategory_Front(cats, name) == <<trim(name)>> \o cats

\* [...categories, newCategory.trim()]
AppendCategory(cats, name) == Append(cats, trim(name))

addCategory ==
  /\ AcceptsCategory(categories, newCategory) => Len(categories) < MaxCats
  /\ IF AcceptsCategory(categories, newCategory)
       THEN /\ categories' = AppendCategory(categories, newCategory)
            /\ newCategory' = Empty
       ELSE UNCHANGED <<categories, newCategory>>
  /\ Handled("addCategory", newCategory)
  /\ UNCHANGED <<todos, input, selectedCategory, filterCategory,
                 editingCategory, editCategoryValue, now>>

RemoveCategory(cats, categoryToDelete) ==
  SelectSeq(cats, LAMBDA cat : cat # categoryToDelete)

\* mutant: the rewritten todo is built anew and loses its completed flag
UncategorizeTodos_ResetDone(ts, categoryToDelete) ==
  [i \in 1..Len(ts) |-> IF ts[i].category = categoryToDelete
                          THEN [ts[i] EXCEPT !.category = Uncategorized,
                                             !.completed = FALSE]
                          ELSE ts[i]]

\* mutant: no cascade to the todos
UncategorizeTodos_NoCascade(ts, categoryToDelete) == ts

\* mutant: the cascade rewrites every todo
UncategorizeTodos_All(ts, categoryToDelete) ==
  [i \in 1..Len(ts) |-> [ts[i] EXCEPT !.category = Uncategorized]]

UncategorizeTodos(ts, categoryToDelete) ==
  [i \in 1..Len(ts) |-> IF ts[i].category = categoryToDelete
                          THEN [ts[i] EXCEPT !.category = Uncategorized]
                          ELSE ts[i]]

\* mutant: the input selection is not reset
SelectionAfterDelete_Keep(sel, categoryToDelete) == sel

SelectionAfterDelete(sel, categoryToDelete) ==
  IF sel = categoryToDelete THEN Empty ELSE sel

\* mutant: the filter is reset like the input selection
FilterAfterDelete_Empty(flt, categoryToDelete) ==
  IF flt = categoryToDelete THEN Empty ELSE flt

FilterAfterDelete(flt, categoryToDelete) ==
  IF flt = categoryToDelete THEN All ELSE flt

deleteCategory(categoryToDelete) ==
  /\ categories' = RemoveCategory(categories, categoryToDelete)
  /\ todos' = UncategorizeTodos(todos, categoryToDelete)
  /\ selectedCategory' = SelectionAfterDelete(selectedCategory, categoryToDelete)
  /\ filterCategory' = FilterAfterDelete(filterCategory, categoryToDelete)
  /\ Handled("deleteCategory", categoryToDelete)
  /\ UNCHANGED <<input, newCategory, editingCategory, editCategoryValue, now>>

startEditCategory(category) ==
  /\ editingCategory' = Some(category)
  /\ editCategoryValue' = category
  /\ Handled("startEditCategory", category)
  /\ UNCHANGED <<todos, input, categories, selectedCategory, filterCategory,
                 newCategory, now>>

\* mutant: the old name is removed and the new one appended
RenameCategories_Append(cats, oldCategory, newCategoryName) ==
  Append(SelectSeq(cats, LAMBDA cat : cat # oldCategory), newCategoryName)

RenameCategories(cats, oldCategory, newCategoryName) ==
  [i \in 1..Len(cats) |-> IF cats[i] = oldCategory THEN newCategoryName ELSE cats[i]]

RenameTodos(ts, oldCategory, newCategoryName) ==
  [i \in 1..Len(ts) |-> IF ts[i].category = oldCategory
                          THEN [ts[i] EXCEPT !.category = newCategoryName]
                          ELSE ts[i]]

SelectionAfterRename(sel, oldCategory, newCategoryName) ==
  IF sel = oldCategory THEN newCategoryName ELSE sel

\* mutant: edit mode is left also when the new name is refused
saveEditCategory_AlwaysCloses(oldCategory) ==
  /\ editingCategory = Some(oldCategory)
  /\ IF AcceptsCategory(categories, editCategoryValue)
       THEN LET newCategoryName == trim(editCategoryValue) IN
            /\ categories' = RenameCategories(categories, oldCategory, newCategoryName)
            /\ todos' = RenameTodos(todos, oldCategory, newCategoryName)
            /\ selectedCategory' =
                 SelectionAfterRename(selectedCategory, oldCategory, newCategoryName)
            /\ filterCategory' =
                 SelectionAfterRename(filterCategory, oldCategory, newCategoryName)
       ELSE UNCHANGED <<categories, todos, selectedCategory, filterCategory>>
  /\ editingCategory' = None
  /\ editCategoryValue' = Empty
  /\ Handled("saveEditCategory", editCategoryValue)
  /\ UNCHANGED <<input, newCategory, now>>

\* editingCategory is Some(oldCategory) whenever Save is rendered
saveEditCategory(oldCategory) ==
  /\ editingCategory = Some(oldCategory)
  /\ IF AcceptsCategory(categories, editCategoryValue)
       THEN LET newCategoryName == trim(editCategoryValue) IN
            /\ categories' = RenameCategories(categories, oldCategory, newCategoryName)
            /\ todos' = RenameTodos(todos, oldCategory, newCategoryName)
            /\ selectedCategory' =
                 SelectionAfterRename(selectedCategory, oldCategory, newCategoryName)
            /\ filterCategory' =
                 SelectionAfterRename(filterCategory, oldCategory, newCategoryName)
            /\ editingCategory' = None
            /\ editCategoryValue' = Empty
       ELSE UNCHANGED <<categories, todos, selectedCategory, filterCategory,
                        editingCategory, editCategoryValue>>
  /\ Handled("saveEditCategory", editCategoryValue)
  /\ UNCHANGED <<input, newCategory, now>>

cancelEditCategory ==
  /\ editingCategory' = None
  /\ editCategoryValue' = Empty
  /\ Handled("cancelEditCategory", Empty)
  /\ UNCHANGED <<todos, input, categories, selectedCategory, filterCategory,
                 newCategory, now>>

\* ---------------------------------------------------------------- rendered controls
\* the category rows that show Edit and Delete, and the row that shows the
\* edit field with Save and Cancel
\* mutant: Edit and Delete are shown on the row in edit mode too
RowsWithButtons_All == Range(categories)

RowsWithButtons == {c \in Range(categories) : editingCategory # Some(c)}
RowsInEdit == {c \in Range(categories) : editingCategory = Some(c)}

CategoryOptions == {Empty} \cup Range(categories)
FilterOptions == {All, Uncategorized} \cup Range(categories)

DisplayedIds == {filteredTodos[i].id : i \in 1..Len(filteredTodos)}

Next ==
  \/ Tick
  \/ \E s \in TodoTexts : setInput(s)
  \/ \E s \in CategoryTexts : setNewCategory(s)
  \/ \E c \in RowsInEdit, s \in CategoryTexts : setEditCategoryValue(s)
  \/ \E v \in CategoryOptions : setSelectedCategory(v)
  \/ \E v \in FilterOptions : setFilterCategory(v)
  \/ addTodo
  \/ \E id \in DisplayedIds : toggleTodo(id)
  \/ \E id \in DisplayedIds : deleteTodo(id)
  \/ addCategory
  \/ \E c \in RowsWithButtons : deleteCategory(c)
  \/ \E c \in RowsWithButtons : startEditCategory(c)
  \/ \E c \in RowsInEdit : saveEditCategory(c)
  \/ \E c \in RowsInEdit : cancelEditCategory

Spec == Init /\ [][Next]_vars

\* toggleTodo and deleteTodo as functions of any id, also one that no todo
\* has (the rendered rows only pass the ids of displayed todos)
TodoIds == 1..MaxTime

NextCalls ==
  \/ Next
  \/ \E id \in TodoIds : toggleTodo(id)
  \/ \E id \in TodoIds : deleteTodo(id)

SpecCalls == Init /\ [][NextCalls]_vars

\* the two selection setters as functions of any string, also one that is
\* not the value of an option of the select
AnyStrings == {Empty, <<"work">>, All}

NextSetters ==
  \/ Next
  \/ \E v \in AnyStrings : setSelectedCategory(v)
  \/ \E v \in AnyStrings : setFilterCategory(v)

SpecSetters == Init /\ [][NextSetters]_vars

\* deleteCategory as a function of any name, also one that is not in
\* categories (the rendered rows only pass members of categories)
AnyNames == {Uncategorized, All, <<"work">>}

NextDeletes ==
  \/ Next
  \/ \E c \in AnyNames : deleteCategory(c)

SpecDeletes == Init /\ [][NextDeletes]_vars

\* the derived view as a function of todos and filterCategory: todo
\* collections of up to MaxViewTodos todos, each created in its own
\* millisecond under a category of ViewCategories or under none
MaxViewTodos == 3
ViewCategories == Append(InitialCategories, <<"work">>)

ViewTodos ==
  {ts \in UNION {[1..n -> [id : 1..MaxViewTodos, text : {<<WS, "milk">>},
                           completed : {FALSE},
                           category : {Uncategorized} \cup Range(ViewCategories)]] :
                   n \in 0..MaxViewTodos} :
     \A i \in DOMAIN ts : ts[i].id = i}

ViewInit ==
  /\ todos \in ViewTodos
  /\ input = Empty
  /\ categories = ViewCategories
  /\ selectedCategory = Empty
  /\ filterCategory = All
  /\ newCategory = Empty
  /\ editingCategory = None
  /\ editCategoryValue = Empty
  /\ now = MaxViewTodos
  /\ steps = 0
  /\ last = [op |-> "init", arg |-> Empty, pre |-> Snapshot]
  /\ removed = {}

ViewNext == \E v \in FilterOptions : setFilterCategory(v)

ViewSpec == ViewInit /\ [][ViewNext]_vars

\* mutant: filteredTodos.sort(...) without the copy; under the filter "all"
\* filteredTodos is the todos array of the state, which is then sorted in place
TodosAfterSort_InPlace == IF filterCategory = All THEN SortByCategory(todos) ELSE todos

\* [...filteredTodos].sort(...) sorts a copy in place: the todos array of the
\* state is not the array that is sorted
TodosAfterSort == todos

\* one execution of the component body: the derived view is computed from
\* the state, no state setter is called
render ==
  /\ todos' = TodosAfterSort
  /\ Handled("render", filterCategory)
  /\ UNCHANGED <<input, categories, selectedCategory, filterCategory,
                 newCategory, editingCategory, editCategoryValue, now>>

RenderNext ==
  \/ ViewNext
  \/ render

RenderSpec == ViewInit /\ [][RenderNext]_vars

\* ---------------------------------------------------------------- properties
Pre == last.pre
Indices(arr) == 1..Len(arr)
NotBlank(text) == \E i \in Indices(text) : text[i] # WS

\* the position of the first occurrence of x in arr (0 when absent)
IndexOf(arr, x) ==
  IF \E i \in Indices(arr) : arr[i] = x
    THEN CHOOSE i \in Indices(arr) : arr[i] = x /\ \A j \in 1..(i - 1) : arr[j] # x
    ELSE 0

\* the category a saveEditCategory event was renaming
OldName == Pre.editingCategory[1]
\* a saveEditCategory event whose new name is not blank and not yet a category
RenameSucceeds ==
  /\ last.op = "saveEditCategory"
  /\ NotBlank(last.arg)
  /\ trim(last.arg) \notin Range(Pre.categories)
RenameRejected ==
  /\ last.op = "saveEditCategory"
  /\ (~NotBlank(last.arg) \/ trim(last.arg) \in Range(Pre.categories))
AddTodoAccepted == last.op = "addTodo" /\ NotBlank(last.arg)
AddTodoRejected == last.op = "addTodo" /\ ~NotBlank(last.arg)

\* C1: referential integrity: every todo's category is "Uncategorized" or a
\* member of categories, in every reachable state
C1_ReferentialIntegrity ==
  \A i \in Indices(todos) :
    todos[i].category = Uncategorized \/ todos[i].category \in Range(categories)

\* a category mutation has just rewritten the category of a todo
C1_Witness ==
  /\ last.op \in {"deleteCategory", "saveEditCategory"}
  /\ \E i \in Indices(todos) : todos[i].category # Pre.todos[i].category

\* C2: categories holds no two equal strings, in every reachable state
C2_CategoriesUnique ==
  \A i, j \in Indices(categories) : i # j => categories[i] # categories[j]

\* an addCategory or a rename of a name that is already a category was refused
C2_Witness ==
  /\ last.op \in {"addCategory", "saveEditCategory"}
  /\ trim(last.arg) \in Range(Pre.categories)
  /\ Len(categories) > Len(InitialCategories)

\* C3: deleteCategory(name) removes name from categories, moves exactly the
\* todos of name to "Uncategorized", lowers the number of categories by 1 if
\* name was present (else by 0) and keeps the order of the other categories
C3_DeleteCategoryEffect ==
  last.op = "deleteCategory" =>
    LET name == last.arg IN
    /\ name \notin Range(categories)
    /\ Range(categories) = Range(Pre.categories) \ {name}
    /\ Len(categories) =
         IF name \in Range(Pre.categories)
           THEN Len(Pre.categories) - 1 ELSE Len(Pre.categories)
    /\ \A i, j \in Indices(categories) :
         i < j => IndexOf(Pre.categories, categories[i])
                    < IndexOf(Pre.categories, categories[j])
    /\ Len(todos) = Len(Pre.todos)
    /\ \A i \in Indices(todos) :
         todos[i].category =
           IF Pre.todos[i].category = name
             THEN Uncategorized ELSE Pre.todos[i].category

\* a category that is not the last one and has a todo was deleted, while
\* another todo was not in it
C3_Witness ==
  /\ last.op = "deleteCategory"
  /\ IndexOf(Pre.categories, last.arg) < Len(Pre.categories)
  /\ \E i \in Indices(todos) : Pre.todos[i].category = last.arg
  /\ \E i \in Indices(todos) : Pre.todos[i].category # last.arg

\* C4: a successful rename puts newName at oldName's position, rewrites the
\* todos of oldName to newName, and moves the input selection and the filter
\* to newName exactly when they were oldName
C4_RenameEffect ==
  RenameSucceeds =>
    LET newName == trim(last.arg) IN
    /\ OldName \in Range(Pre.categories)
    /\ Len(categories) = Len(Pre.categories)
    /\ \A i \in Indices(categories) :
         categories[i] =
           IF Pre.categories[i] = OldName THEN newName ELSE Pre.categories[i]
    /\ Len(todos) = Len(Pre.todos)
    /\ \A i \in Indices(todos) :
         todos[i].category =
           IF Pre.todos[i].category = OldName
             THEN newName ELSE Pre.todos[i].category
    /\ selectedCategory =
         IF Pre.selectedCategory = OldName THEN newName ELSE Pre.selectedCategory
    /\ filterCategory =
         IF Pre.filterCategory = OldName THEN newName ELSE Pre.filterCategory

\* a category that is not the last one, has a todo and is the input selection
\* was renamed
C4_Witness ==
  /\ RenameSucceeds
  /\ IndexOf(Pre.categories, OldName) < Len(Pre.categories)
  /\ \E i \in Indices(todos) : Pre.todos[i].category = OldName
  /\ Pre.selectedCategory = OldName
  /\ Pre.filterCategory # OldName

\* C5: a rename to a blank name or to a name that is already a category
\* (the old name included) changes neither categories, todos, the input
\* selection nor the filter
C5_RenameRejectedNoOp ==
  RenameRejected =>
    /\ categories = Pre.categories
    /\ todos = Pre.todos
    /\ selectedCategory = Pre.selectedCategory
    /\ filterCategory = Pre.filterCategory

\* a rename to the name of another category, typed with surrounding blanks
C5_Witness ==
  /\ RenameRejected
  /\ trim(last.arg) \in Range(Pre.categories) \ {OldName}
  /\ last.arg # trim(last.arg)

\* C6: deleteCategory(name) resets the input selection to "" exactly when it
\* was name and the filter to "all" exactly when it was name
C6_DeleteResetsSelections ==
  last.op = "deleteCategory" =>
    /\ selectedCategory =
         IF Pre.selectedCategory = last.arg THEN Empty ELSE Pre.selectedCategory
    /\ filterCategory =
         IF Pre.filterCategory = last.arg THEN All ELSE Pre.filterCategory

\* the deleted category was the filter, and the input selection was another
\* category
C6_Witness ==
  /\ last.op = "deleteCategory"
  /\ Pre.filterCategory = last.arg
  /\ Pre.selectedCategory \notin {Empty, last.arg}

\* C7: addTodo with a text that does not trim to empty appends exactly one
\* todo with completed = false and leaves the earlier todos and their order
C7_AddTodoAppends ==
  AddTodoAccepted =>
    /\ Len(todos) = Len(Pre.todos) + 1
    /\ todos[Len(todos)].completed = FALSE
    /\ SubSeq(todos, 1, Len(Pre.todos)) = Pre.todos

\* a todo was added behind a completed one
C7_Witness ==
  /\ AddTodoAccepted
  /\ Len(Pre.todos) = 1
  /\ Pre.todos[1].completed

\* C8: addTodo with an empty or whitespace-only text leaves todos unchanged
C8_AddTodoBlankNoOp == AddTodoRejected => todos = Pre.todos

\* a whitespace-only text was submitted while a todo exists
C8_Witness ==
  /\ AddTodoRejected
  /\ last.arg # Empty
  /\ todos # <<>>

\* C9: the todo made by addTodo holds the text as entered and the input
\* selection as category, or "Uncategorized" when the selection is ""
C9_NewTodoFields ==
  AddTodoAccepted =>
    /\ todos # <<>>
    /\ todos[Len(todos)].text = last.arg
    /\ todos[Len(todos)].category =
         IF Pre.selectedCategory = Empty
           THEN Uncategorized ELSE Pre.selectedCategory

\* a text with a leading blank was added under a selected category
C9_Witness ==
  /\ AddTodoAccepted
  /\ last.arg # trim(last.arg)
  /\ Pre.selectedCategory # Empty

\* C10: no two todos have the same id, and ids increase in creation order
C10_TodoIdsUnique ==
  \A i, j \in Indices(todos) : i < j => todos[i].id < todos[j].id
\* the k-th smallest element of a set of indices
Nth(S, k) == CHOOSE i \in S : Cardinality({j \in S : j < i}) = k - 1

\* everything but todos is as the last event found it
RestUnchanged ==
  /\ input = Pre.input
  /\ categories = Pre.categories
  /\ selectedCategory = Pre.selectedCategory
  /\ filterCategory = Pre.filterCategory
  /\ newCategory = Pre.newCategory
  /\ editingCategory = Pre.editingCategory
  /\ editCategoryValue = Pre.editCategoryValue

\* C11: toggleTodo(id) flips completed of the todos with that id and nothing
\* else: ids, texts, categories, positions, the other todos and the rest of
\* the state stay; with no such todo the state is unchanged
C11_ToggleEffect ==
  last.op = "toggleTodo" =>
    /\ Len(todos) = Len(Pre.todos)
    /\ \A i \in Indices(todos) :
         /\ todos[i].id = Pre.todos[i].id
         /\ todos[i].text = Pre.todos[i].text
         /\ todos[i].category = Pre.todos[i].category
         /\ todos[i].completed =
              IF Pre.todos[i].id = last.arg
                THEN ~Pre.todos[i].completed ELSE Pre.todos[i].completed
    /\ RestUnchanged
    /\ (\A i \in Indices(Pre.todos) : Pre.todos[i].id # last.arg) => todos = Pre.todos

\* a todo was toggled while a todo with another id was in the collection
C11_Witness ==
  /\ last.op = "toggleTodo"
  /\ \E i \in Indices(todos) :
       Pre.todos[i].id = last.arg /\ todos[i].completed # Pre.todos[i].completed
  /\ \E i \in Indices(todos) : Pre.todos[i].id # last.arg

\* C13: deleteTodo(id) removes the todos with that id and keeps the others,
\* unchanged and in their order; with no such todo the collection is unchanged
C13_DeleteTodoEffect ==
  last.op = "deleteTodo" =>
    LET Kept == {i \in Indices(Pre.todos) : Pre.todos[i].id # last.arg} IN
    /\ Len(todos) = Cardinality(Kept)
    /\ \A k \in Indices(todos) : todos[k] = Pre.todos[Nth(Kept, k)]
    /\ \A i \in Indices(todos) : todos[i].id # last.arg
    /\ Kept = Indices(Pre.todos) => todos = Pre.todos

\* the second of two todos was kept while the first was deleted
C13_Witness ==
  /\ last.op = "deleteTodo"
  /\ Len(Pre.todos) = 2
  /\ Pre.todos[1].id = last.arg
  /\ Pre.todos[2].id # last.arg
  /\ todos = <<Pre.todos[2]>>

\* C12: toggleTodo(id) twice in a row gives back the todo collection, and so
\* the completed flag, of before the first toggle
C12_ToggleTwice ==
  [][\A id \in TodoIds :
       (last.op = "toggleTodo" /\ last.arg = id /\ toggleTodo(id))
         => todos' = last.pre.todos]_vars

\* the fourth event of a run toggled a completed todo back: the events were
\* setInput, addTodo, toggleTodo, toggleTodo
C12_Witness ==
  /\ last.op = "toggleTodo"
  /\ steps = 4
  /\ \E i \in Indices(todos) :
       /\ Pre.todos[i].id = last.arg
       /\ Pre.todos[i].completed
       /\ ~todos[i].completed

\* C14: addCategory(name) changes nothing when the trimmed name is empty or
\* already a category, and otherwise appends the name at the end; a name
\* added twice is in categories once
C14_AddCategoryEffect ==
  last.op = "addCategory" =>
    /\ todos = Pre.todos
    /\ selectedCategory = Pre.selectedCategory
    /\ filterCategory = Pre.filterCategory
    /\ IF ~NotBlank(last.arg) \/ trim(last.arg) \in Range(Pre.categories)
         THEN categories = Pre.categories /\ newCategory = Pre.newCategory
         ELSE /\ Len(categories) = Len(Pre.categories) + 1
              /\ SubSeq(categories, 1, Len(Pre.categories)) = Pre.categories
              /\ categories[Len(categories)] = trim(last.arg)
    /\ NotBlank(last.arg) =>
         Cardinality({i \in Indices(categories) : categories[i] = trim(last.arg)}) = 1

\* the name that an earlier addCategory appended was submitted again
C14_Witness ==
  /\ last.op = "addCategory"
  /\ Len(Pre.categories) > Len(InitialCategories)
  /\ Pre.categories[Len(Pre.categories)] = trim(last.arg)
  /\ categories = Pre.categories

Count(arr, x) == Cardinality({i \in Indices(arr) : arr[i] = x})

\* C15: the derived view holds all todos when the filter is "all" and
\* otherwise exactly the todos whose category is the filter, each as often
\* as the collection holds it
C15_ViewContents ==
  /\ filterCategory = All => filteredTodos = todos
  /\ \A i \in Indices(filteredTodos) : filteredTodos[i] \in Range(todos)
  /\ \A x \in Range(todos) \cup Range(sortedTodos) :
       Count(sortedTodos, x) =
         IF filterCategory = All \/ x.category = filterCategory
           THEN Count(todos, x) ELSE 0

\* a filter was chosen that some todos match and others do not
C15_Witness ==
  /\ last.op = "setFilterCategory"
  /\ filterCategory # All
  /\ \E i \in Indices(todos) : todos[i].category = filterCategory
  /\ \E i \in Indices(todos) : todos[i].category # filterCategory
  /\ Len(sortedTodos) < Len(todos)

\* C16: the derived view is in non-decreasing order of category name, and
\* displayed todos of the same category are in their order in the collection
C16_ViewSortedStable ==
  /\ \A i, j \in Indices(sortedTodos) :
       i < j => localeCompare(sortedTodos[i].category, sortedTodos[j].category) <= 0
  /\ \A i \in Indices(sortedTodos) :
       LET c == sortedTodos[i].category IN
       SelectSeq(sortedTodos, LAMBDA todo : todo.category = c)
         = SelectSeq(todos, LAMBDA todo : todo.category = c)

\* todos [B, A, A] are displayed as [A, A, B] with the two A in their order
C16_Witness ==
  /\ Len(todos) = 3
  /\ filterCategory = All
  /\ todos[2].category = todos[3].category
  /\ localeCompare(todos[2].category, todos[1].category) < 0
  /\ sortedTodos = <<todos[2], todos[3], todos[1]>>

CategoryOps == {"addCategory", "deleteCategory", "saveEditCategory"}

\* C18: addCategory, deleteCategory, a rename, toggleTodo and the two
\* selection setters keep the number of todos and every todo's id, text and
\* position; the category operations also keep every completed flag
C18_TodosSurvive ==
  last.op \in CategoryOps \cup {"toggleTodo", "setFilterCategory", "setSelectedCategory"} =>
    /\ Len(todos) = Len(Pre.todos)
    /\ \A i \in Indices(todos) :
         /\ todos[i].id = Pre.todos[i].id
         /\ todos[i].text = Pre.todos[i].text
         /\ last.op \in CategoryOps => todos[i].completed = Pre.todos[i].completed

\* a category operation rewrote the category of a completed todo
C18_Witness ==
  /\ last.op \in CategoryOps
  /\ \E i \in Indices(todos) :
       /\ Pre.todos[i].completed
       /\ todos[i].category # Pre.todos[i].category

\* C19: a todo is created with completed = false, toggleTodo moves it between
\* active and completed, deleteTodo removes it from either, and an id that
\* was removed is never in the collection again
C19_TodoLifecycle ==
  /\ AddTodoAccepted => ~todos[Len(todos)].completed
  /\ last.op = "toggleTodo" =>
       \A i \in Indices(todos) :
         Pre.todos[i].id = last.arg => todos[i].completed = ~Pre.todos[i].completed
  /\ last.op = "deleteTodo" => \A i \in Indices(todos) : todos[i].id # last.arg
  /\ \A i \in Indices(todos) : todos[i].id \notin removed

C21_SettersPure ==
  /\ last.op = "setFilterCategory" =>
       /\ filterCategory = last.arg
       /\ todos = Pre.todos
       /\ categories = Pre.categories
       /\ selectedCategory = Pre.selectedCategory
       /\ input = Pre.input
       /\ newCategory = Pre.newCategory
       /\ editingCategory = Pre.editingCategory
       /\ editCategoryValue = Pre.editCategoryValue
  /\ last.op = "setSelectedCategory" =>
       /\ selectedCategory = last.arg
       /\ todos = Pre.todos
       /\ categories = Pre.categories
       /\ filterCategory = Pre.filterCategory
       /\ input = Pre.input
       /\ newCategory = Pre.newCategory
       /\ editingCategory = Pre.editingCategory
       /\ editCategoryValue = Pre.editCategoryValue

\* with a todo in the collection, the filter was set to a string that is not
\* the value of an option of the select
C21_Witness ==
  /\ last.op = "setFilterCategory"
  /\ last.arg \notin {All, Uncategorized} \cup Range(categories)
  /\ filterCategory # Pre.filterCategory
  /\ todos # <<>>
IsTrimmed(s) == s = Empty \/ (Head(s) # WS /\ s[Len(s)] # WS)

\* the lower-case form of a name
toLowerCase(s) ==
  [i \in 1..Len(s) |-> CASE s[i] = "Work" -> "work"
                         [] s[i] = "Personal" -> "personal"
                         [] s[i] = "Shopping" -> "shopping"
                         [] s[i] = "Uncategorized" -> "uncategorized"
                         [] OTHER -> s[i]]

\* C23: an accepted addCategory stores the trimmed name at the end and
\* empties the new-category field, a rejected one leaves categories and the
\* field as they were; no stored category is empty or has leading or
\* trailing whitespace; a name that differs from a category only in case is
\* accepted beside it
C23_AddCategoryTrimmed ==
  /\ last.op = "addCategory" =>
       IF NotBlank(last.arg) /\ trim(last.arg) \notin Range(Pre.categories)
         THEN /\ Len(categories) = Len(Pre.categories) + 1
              /\ categories[Len(categories)] = trim(last.arg)
              /\ IsTrimmed(categories[Len(categories)])
              /\ newCategory = Empty
         ELSE /\ categories = Pre.categories
              /\ newCategory = Pre.newCategory
  /\ \A i \in Indices(categories) :
       categories[i] # Empty /\ IsTrimmed(categories[i])
  /\ (/\ last.op = "addCategory"
      /\ NotBlank(last.arg)
      /\ trim(last.arg) \notin Range(Pre.categories))
       => \A c \in Range(Pre.categories) :
            toLowerCase(c) = toLowerCase(trim(last.arg))
              => {c, trim(last.arg)} \subseteq Range(categories)

\* ' work ' was entered while 'Work' is a category: 'work' is stored beside
\* it and the field is emptied
C23_Witness ==
  /\ last.op = "addCategory"
  /\ last.arg = <<WS, "work", WS>>
  /\ Pre.newCategory = last.arg
  /\ newCategory = Empty
  /\ <<"Work">> \in Range(Pre.categories)
  /\ {<<"Work">>, <<"work">>} \subseteq Range(categories)
\* C24: startEditCategory(c) puts exactly c in edit mode with c as pending
\* value; an accepted save leaves edit mode with an empty pending value; a
\* refused save keeps the category in edit mode and the pending value;
\* cancelEditCategory leaves edit mode and changes neither categories, todos
\* nor the selections
C24_EditWorkflow ==
  /\ last.op = "startEditCategory" =>
       /\ editingCategory = Some(last.arg)
       /\ RowsInEdit = {last.arg}
       /\ editCategoryValue = last.arg
  /\ RenameSucceeds =>
       /\ editingCategory = None
       /\ RowsInEdit = {}
       /\ editCategoryValue = Empty
  /\ RenameRejected =>
       /\ editingCategory = Pre.editingCategory
       /\ editingCategory # None
       /\ RowsInEdit = {OldName}
       /\ editCategoryValue = Pre.editCategoryValue
  /\ last.op = "cancelEditCategory" =>
       /\ editingCategory = None
       /\ RowsInEdit = {}
       /\ categories = Pre.categories
       /\ todos = Pre.todos
       /\ selectedCategory = Pre.selectedCategory
       /\ filterCategory = Pre.filterCategory

\* a save with the name of another category was refused: the category is
\* still in edit mode with the refused name as pending value
C24_Witness ==
  /\ RenameRejected
  /\ trim(last.arg) \in Range(categories) \ {OldName}
  /\ editingCategory = Some(OldName)
  /\ editCategoryValue = last.arg
\* C25: in every state reached through the rendered controls the input
\* selection is "" or a category and the filter is "all", "Uncategorized" or
\* a category
C25_SelectionsValid ==
  /\ selectedCategory \in {Empty} \cup Range(categories)
  /\ filterCategory \in {All, Uncategorized} \cup Range(categories)

\* the category that was both the input selection and the filter was deleted
C25_Witness ==
  /\ last.op = "deleteCategory"
  /\ Pre.selectedCategory = last.arg
  /\ Pre.filterCategory = last.arg
  /\ selectedCategory = Empty
  /\ filterCategory = All

\* C26: in every state reached through the rendered controls no category
\* or a member of categories is in edit mode, and an accepted save renames
\* a category that exists
C26_EditTargetValid ==
  /\ editingCategory = None \/ editingCategory[1] \in Range(categories)
  /\ RenameSucceeds => /\ OldName \in Range(Pre.categories)
                       /\ trim(last.arg) \in Range(categories)
                       /\ OldName \notin Range(categories)

\* a category was deleted while another one was in edit mode
C26_Witness ==
  /\ last.op = "deleteCategory"
  /\ editingCategory # None
  /\ editingCategory[1] # last.arg
\* C27: after an accepted rename of old to new a todo has the category new
\* exactly when it had the category old before, and every other todo has
\* the category it had
C27_RenameNeverMerges ==
  RenameSucceeds =>
    LET newName == trim(last.arg) IN
    /\ Len(todos) = Len(Pre.todos)
    /\ \A i \in Indices(todos) :
         /\ todos[i].category = newName <=> Pre.todos[i].category = OldName
         /\ Pre.todos[i].category # OldName
              => todos[i].category = Pre.todos[i].category

\* C28: after an accepted rename of A to B, the rename of B to A gives back
\* the categories, every todo's category, the input selection and the
\* filter of before the first rename
C28_RenameRoundTrip ==
  (RenameSucceeds /\ AcceptsCategory(categories, OldName)) =>
    LET A == OldName
        B == trim(last.arg) IN
    /\ RenameCategories(categories, B, A) = Pre.categories
    /\ \A i \in Indices(todos) :
         RenameTodos(todos, B, A)[i].category = Pre.todos[i].category
    /\ SelectionAfterRename(selectedCategory, B, A) = Pre.selectedCategory
    /\ SelectionAfterRename(filterCategory, B, A) = Pre.filterCategory

\* C29: whenever the filter is the name of a category, the displayed list
\* holds exactly the todos of that category, each as often as the collection
\* holds it
C29_FilterByCategoryExact ==
  filterCategory \in Range(categories) =>
    \A x \in Range(todos) \cup Range(sortedTodos) :
      Count(sortedTodos, x) =
        IF x.category = filterCategory THEN Count(todos, x) ELSE 0

\* C30: toggleTodo changes the completed flag of at most one todo and
\* deleteTodo removes at most one todo
C30_AtMostOneTodo ==
  /\ last.op = "toggleTodo" =>
       /\ Len(todos) = Len(Pre.todos)
       /\ Cardinality({i \in Indices(todos) :
                         todos[i].completed # Pre.todos[i].completed}) <= 1
  /\ last.op = "deleteTodo" => Len(Pre.todos) - Len(todos) <= 1
====
